---- MODULE Spec2Model ----
(***************************************************************************)
(* Model of db/custom_api/custom_api.py (decomposition of the custom URL   *)
(* into query parameters) and of the datapoint store it reads from.        *)
(*                                                                         *)
(* Representation of Python values:                                        *)
(*   - a str is a sequence of atoms; an atom is a fixed ASCII substring    *)
(*     ("/", " ", "csv", "2015", ...). The atoms are prefix-free, so two   *)
(*     strs are equal exactly when their atom sequences are equal;         *)
(*   - an optional value is a sequence of length <= 1: None is << >> and   *)
(*     a present value v is <<v>>;                                         *)
(*   - a date string 'YYYY-MM-DD' is the triple <<year, month, day>> of    *)
(*     the fields strftime prints (all years here have four digits);       *)
(*   - an exception is a record [type, msg, values]; NoExc means the call  *)
(*     returned normally.                                                  *)
(***************************************************************************)
EXTENDS Integers, Sequences, FiniteSets, TLC

VARIABLES
    pc,          \* "ready" before the call, "done" after it
    op,          \* the operation that was called
    inner_path,  \* argument of InnerPath / CustomGET (a str)
    in_tokens,   \* argument of TokenHelper (a list of str)
    domain,      \* arguments of CustomGET
    varname,
    freq,
    today,       \* what date.today() returned during the call
    tokens,      \* TokenHelper.tokens when the call ended
    raised,      \* the exception the call raised, or NoExc
    result,      \* the value the call returned (None when it raised)
    store,       \* the rows of the datapoint table
    query,       \* arguments of the last select_datapoints
    log,         \* the upserts made so far, in the order they were serialized
    other        \* a second InnerPath built beside the first, or None

vars == <<pc, op, inner_path, in_tokens, domain, varname, freq, today,
          tokens, raised, result, store, query, log, other>>

\* what the calls on the datapoint store own
storeVars == <<store, query, log>>

\* what the calls on the parser own
parseVars == <<inner_path, in_tokens, domain, varname, freq, today, tokens>>

-----------------------------------------------------------------------------
(* Bounds of the model *)

\* longest token list handed to TokenHelper directly
MaxTokens == 3
\* most '/'-separated segments in an inner path
MaxSegs == 3

-----------------------------------------------------------------------------
(* Python values *)

None == << >>
Some(v) == <<v>>

\* the str made of one atom
S(a) == <<a>>

NoExc == [type |-> "", msg |-> "", values |-> << >>]

\* CustomError400(values_found): the list is the exception's message
CustomError400List(found) ==
    [type |-> "CustomError400", msg |-> "", values |-> found]

\* CustomError400("..."): a text message, with the str it interpolates
CustomError400Msg(text, args) ==
    [type |-> "CustomError400", msg |-> text, values |-> args]

\* ValueError raised by datetime.date for a year outside MINYEAR..MAXYEAR
ValueError == [type |-> "ValueError", msg |-> "year is out of range", values |-> << >>]

-----------------------------------------------------------------------------
(* Module constants *)

ALLOWED_FREQUENCIES == <<S("d"), S("w"), S("m"), S("q"), S("a")>>

ALLOWED_REAL_RATES == <<S("rog"), S("yoy"), S("base")>>

ALLOWED_AGGREGATORS == <<S("eop"), S("avg")>>

ALLOWED_FINALISERS == <<S("csv"), S("json")>>

-----------------------------------------------------------------------------
(* str and list primitives *)

Whitespace == {" "}

\* atoms that are runs of ASCII digits, with their decimal value and length
DigitAtoms == {"0", "2015", "2017"}

DigitVal(a) == CASE a = "0" -> 0 [] a = "2015" -> 2015 [] a = "2017" -> 2017

DigitLen(a) == CASE a = "0" -> 1 [] a = "2015" -> 4 [] a = "2017" -> 4

RECURSIVE Pow10(_)
Pow10(n) == IF n = 0 THEN 1 ELSE 10 * Pow10(n - 1)

\* x in list
InList(x, list) == \E i \in 1..Len(list) : list[i] = x

\* list.index(x): position of the first element equal to x
Index(list, x) == CHOOSE i \in 1..Len(list) :
                      list[i] = x /\ \A j \in 1..(i - 1) : list[j] # x

\* list.pop(i)
PopAt(list, i) == SubSeq(list, 1, i - 1) \o SubSeq(list, i + 1, Len(list))

\* str.isdigit(): at least one character and all of them digits
IsDigit(s) == Len(s) > 0 /\ \A i \in 1..Len(s) : s[i] \in DigitAtoms

\* int(s) for a str of digits
RECURSIVE IntOf(_)
IntOf(s) == IF s = << >> THEN 0
            ELSE IntOf(SubSeq(s, 1, Len(s) - 1)) * Pow10(DigitLen(s[Len(s)]))
                 + DigitVal(s[Len(s)])

\* str.split('/')
RECURSIVE Split(_)
Split(s) ==
    IF \A i \in 1..Len(s) : s[i] # "/" THEN <<s>>
    ELSE LET i == CHOOSE k \in 1..Len(s) :
                      s[k] = "/" /\ \A j \in 1..(k - 1) : s[j] # "/"
         IN <<SubSeq(s, 1, i - 1)>> \o Split(SubSeq(s, i + 1, Len(s)))

\* str.strip()
RECURSIVE Strip(_)
Strip(s) ==
    IF s = << >> THEN s
    ELSE IF Head(s) \in Whitespace THEN Strip(Tail(s))
    ELSE IF s[Len(s)] \in Whitespace THEN Strip(SubSeq(s, 1, Len(s) - 1))
    ELSE s

\* truth value of an optional str: None and '' are false
Truthy(o) == o # None /\ o[1] # << >>

\* F(v), with v computed once: a local variable assigned v and then read
With(v, F(_)) == CHOOSE y \in {F(x) : x \in {v}} : TRUE

-----------------------------------------------------------------------------
(* class TokenHelper: every method takes the list self.tokens and returns  *)
(* the list as the method left it, the exception it raised (or NoExc) and  *)
(* the value it returned.                                                  *)

\* datetime.date accepts MINYEAR <= year <= MAXYEAR
MINYEAR == 1
MAXYEAR == 9999

\* TokenHelper._pop
Pop(toks, value) == PopAt(toks, Index(toks, value))

\* _find_years with the two years put in numeric order (a variant that C3
\* tells apart from the code)
FindYearsSorted(toks) ==
    LET integers == SelectSeq(toks, IsDigit)
        swap == Len(integers) = 2 /\ IntOf(integers[1]) > IntOf(integers[2])
        start == IF Len(integers) \in {1, 2}
                 THEN Some(integers[IF swap THEN 2 ELSE 1]) ELSE None
        end == IF Len(integers) = 2
               THEN Some(integers[IF swap THEN 1 ELSE 2]) ELSE None
    IN [tokens |-> SelectSeq(toks, LAMBDA x : ~IsDigit(x)),
        start |-> start, end |-> end]

\* _find_years taking the first two integers however many there are (a
\* variant that C9 tells apart from the code)
FindYearsFirstTwo(toks) ==
    LET integers == SelectSeq(toks, IsDigit)
        start == IF Len(integers) >= 1 THEN Some(integers[1]) ELSE None
        toks1 == IF Len(integers) >= 1 THEN Pop(toks, integers[1]) ELSE toks
        end == IF Len(integers) >= 2 THEN Some(integers[2]) ELSE None
        toks2 == IF Len(integers) >= 2 THEN Pop(toks1, integers[2]) ELSE toks1
    IN [tokens |-> toks2, start |-> start, end |-> end]

\* TokenHelper._find_years
FindYears(toks) ==
    LET integers == SelectSeq(toks, IsDigit)
        start == IF Len(integers) \in {1, 2} THEN Some(integers[1]) ELSE None
        toks1 == IF Len(integers) \in {1, 2} THEN Pop(toks, integers[1]) ELSE toks
        end == IF Len(integers) = 2 THEN Some(integers[2]) ELSE None
        toks2 == IF Len(integers) = 2 THEN Pop(toks1, integers[2]) ELSE toks1
    IN [tokens |-> toks2, start |-> start, end |-> end]

\* TokenHelper._as_date, after int(year): date(...) raises ValueError for a
\* year out of range, else strftime('%Y-%m-%d') prints the three fields
AsDate(year, month, day) ==
    IF year < MINYEAR \/ year > MAXYEAR
    THEN [exc |-> ValueError, val |-> None]
    ELSE [exc |-> NoExc, val |-> Some(<<year, month, day>>)]

\* TokenHelper.get_dates_dict; t is what date.today() returns
GetDatesDict(toks, t) ==
    With(FindYears(toks), LAMBDA fy :
    With(IF Truthy(fy.start) THEN AsDate(IntOf(fy.start[1]), 1, 1)
         ELSE [exc |-> NoExc, val |-> None], LAMBDA sd :
    IF sd.exc # NoExc THEN [tokens |-> fy.tokens, exc |-> sd.exc, val |-> None]
    ELSE
    With(IF Truthy(fy.end) THEN AsDate(IntOf(fy.end[1]), 12, 31)
         ELSE AsDate(t[1], t[2], t[3]), LAMBDA ed :
    IF ed.exc # NoExc THEN [tokens |-> fy.tokens, exc |-> ed.exc, val |-> None]
    ELSE [tokens |-> fy.tokens, exc |-> NoExc,
          val |-> [start_date |-> sd.val, end_date |-> ed.val]])))

\* _find_one looking at the first token only (a variant that C11 tells
\* apart from the code)
FindOneFirst(toks, allowed_values) ==
    LET values_found == SelectSeq(allowed_values,
                                  LAMBDA p : toks # << >> /\ toks[1] = p)
    IN IF values_found = << >>
       THEN [tokens |-> toks, exc |-> NoExc, val |-> None]
       ELSE [tokens |-> Tail(toks), exc |-> NoExc, val |-> Some(values_found[1])]

\* TokenHelper._find_one
FindOne(toks, allowed_values) ==
    LET values_found == SelectSeq(allowed_values, LAMBDA p : InList(p, toks))
    IN IF values_found = << >>
       THEN [tokens |-> toks, exc |-> NoExc, val |-> None]
       ELSE IF Len(values_found) = 1
       THEN [tokens |-> Pop(toks, values_found[1]), exc |-> NoExc,
             val |-> Some(values_found[1])]
       ELSE [tokens |-> toks, exc |-> CustomError400List(values_found), val |-> None]

\* TokenHelper.fin / rate / agg
Fin(toks) == FindOne(toks, ALLOWED_FINALISERS)
Rate(toks) == FindOne(toks, ALLOWED_REAL_RATES)
Agg(toks) == FindOne(toks, ALLOWED_AGGREGATORS)

-----------------------------------------------------------------------------
(* class InnerPath *)

\* tokens = [token.strip() for token in inner_path.split('/') if token]
Tokenize(path) ==
    LET segs == SelectSeq(Split(path), LAMBDA token : token # << >>)
    IN [i \in 1..Len(segs) |-> Strip(segs[i])]

\* the check left out (a variant that C2 tells apart from the code)
CheckExclusiveOff(rate, agg) == NoExc

\* if self.rate and self.agg: raise CustomError400(...)
CheckExclusive(rate, agg) ==
    IF Truthy(rate) /\ Truthy(agg)
    THEN CustomError400Msg("Cannot combine rate and aggregation.", << >>)
    ELSE NoExc

\* the unit taken from the end of the list (a variant that C4 tells apart
\* from the code)
UnitLast(toks, rate) ==
    IF toks # << >> THEN Some(toks[Len(toks)])
    ELSE IF Truthy(rate) THEN rate ELSE None

\* the unit: tokens[0] if tokens else (self.rate or None)
Unit(toks, rate) ==
    IF toks # << >> THEN Some(toks[1])
    ELSE IF Truthy(rate) THEN rate ELSE None

\* InnerPath.__init__: tokens0 is the list right after tokenizing
InnerPath(path, t) ==
    With(Tokenize(path), LAMBDA tokens0 :
    LET Fail(toks, e) == [tokens0 |-> tokens0, tokens |-> toks, exc |-> e, val |-> None]
    IN
    With(GetDatesDict(tokens0, t), LAMBDA d :
    IF d.exc # NoExc THEN Fail(d.tokens, d.exc) ELSE
    With(Fin(d.tokens), LAMBDA f :
    IF f.exc # NoExc THEN Fail(f.tokens, f.exc) ELSE
    With(Rate(f.tokens), LAMBDA r :
    IF r.exc # NoExc THEN Fail(r.tokens, r.exc) ELSE
    With(Agg(r.tokens), LAMBDA a :
    IF a.exc # NoExc THEN Fail(a.tokens, a.exc) ELSE
    With(CheckExclusive(r.val, a.val), LAMBDA x :
    IF x # NoExc THEN Fail(a.tokens, x) ELSE
    [tokens0 |-> tokens0, tokens |-> a.tokens, exc |-> NoExc,
     val |-> [dates |-> d.val, fin |-> f.val, rate |-> r.val,
              agg |-> a.val, unit |-> Unit(a.tokens, r.val)]]))))))

-----------------------------------------------------------------------------
(* class CustomGET *)

\* CustomGET.make_name
MakeName(name, unit) ==
    IF Truthy(unit) THEN name \o S("_") \o unit[1] ELSE name

\* make_freq accepting any str (a variant that C6 tells apart from the code)
MakeFreqAny(f) == [exc |-> NoExc, val |-> f]

\* CustomGET.make_freq
MakeFreq(f) ==
    IF ~InList(f, ALLOWED_FREQUENCIES)
    THEN [exc |-> CustomError400Msg("Frequency <{freq}> is not valid", <<f>>),
          val |-> None]
    ELSE [exc |-> NoExc, val |-> f]

\* CustomGET.__init__: self.params
CustomGET(dom, name, f, path, t) ==
    With(InnerPath(path, t), LAMBDA ip :
    IF ip.exc # NoExc THEN [tokens |-> ip.tokens, exc |-> ip.exc, val |-> None] ELSE
    With(MakeFreq(f), LAMBDA mf :
    IF mf.exc # NoExc THEN [tokens |-> ip.tokens, exc |-> mf.exc, val |-> None] ELSE
    [tokens |-> ip.tokens, exc |-> NoExc,
     val |-> [freq |-> mf.val,
              name |-> MakeName(name, ip.val.unit),
              start_date |-> ip.val.dates.start_date,
              end_date |-> ip.val.dates.end_date]]))

-----------------------------------------------------------------------------
(* Inputs *)

\* strs that TokenHelper is given as tokens
TokenPool ==
    {S("csv"), S("json"), S("rog"), S("yoy"), S("base"), S("eop"), S("avg"),
     S("bln_rub"), S("2015"), S("2017"), S("0"), <<"2015", "0">>, << >>}

TokenLists == UNION {[1..n -> TokenPool] : n \in 0..MaxTokens}

\* segments an inner path is made of: '', ' ', ' bln_rub ', 'csv', ...
Segments ==
    {<< >>, S(" "), <<" ", "bln_rub", " ">>, S("csv"), S("json"), S("rog"),
     S("yoy"), S("eop"), S("avg"), S("2015"), S("2017"), S("0")}

\* '/'.join(segs)
RECURSIVE Join(_)
Join(segs) ==
    IF segs = << >> THEN << >>
    ELSE IF Len(segs) = 1 THEN segs[1]
    ELSE segs[1] \o S("/") \o Join(Tail(segs))

\* the paths of the module docstring: 'eop/2015/2017/csv' and 'bln_rub'
ExamplePaths ==
    {<<"eop", "/", "2015", "/", "2017", "/", "csv">>, S("bln_rub")}

Paths == {Join(segs) : segs \in UNION {[1..n -> Segments] : n \in 0..MaxSegs}}
         \cup ExamplePaths

\* dates date.today() may return (year, month, day)
Todays == {<<2026, 11, 3>>, <<2016, 2, 29>>}

NoDate == <<0, 0, 0>>

-----------------------------------------------------------------------------
(* The calls *)

Init ==
    /\ pc = "ready"
    /\ op = ""
    /\ inner_path = << >>
    /\ in_tokens = << >>
    /\ domain = << >>
    /\ varname = << >>
    /\ freq = << >>
    /\ today = NoDate
    /\ tokens = << >>
    /\ raised = NoExc
    /\ result = None
    /\ store = {}
    /\ query = << >>
    /\ log = << >>
    /\ other = None

\* TokenHelper(toks).fin()
CallFin ==
    /\ pc = "ready"
    /\ \E toks \in TokenLists :
         \E r \in {Fin(toks)} :
            /\ in_tokens' = toks
            /\ tokens' = r.tokens
            /\ raised' = r.exc
            /\ result' = r.val
    /\ op' = "fin"
    /\ pc' = "done"
    /\ UNCHANGED <<inner_path, domain, varname, freq, today, storeVars, other>>

\* TokenHelper(toks).rate()
CallRate ==
    /\ pc = "ready"
    /\ \E toks \in TokenLists :
         \E r \in {Rate(toks)} :
            /\ in_tokens' = toks
            /\ tokens' = r.tokens
            /\ raised' = r.exc
            /\ result' = r.val
    /\ op' = "rate"
    /\ pc' = "done"
    /\ UNCHANGED <<inner_path, domain, varname, freq, today, storeVars, other>>

\* TokenHelper(toks).agg()
CallAgg ==
    /\ pc = "ready"
    /\ \E toks \in TokenLists :
         \E r \in {Agg(toks)} :
            /\ in_tokens' = toks
            /\ tokens' = r.tokens
            /\ raised' = r.exc
            /\ result' = r.val
    /\ op' = "agg"
    /\ pc' = "done"
    /\ UNCHANGED <<inner_path, domain, varname, freq, today, storeVars, other>>

\* TokenHelper(toks).get_dates_dict()
CallGetDatesDict ==
    /\ pc = "ready"
    /\ \E toks \in TokenLists, t \in Todays :
         \E r \in {GetDatesDict(toks, t)} :
            /\ in_tokens' = toks
            /\ today' = t
            /\ tokens' = r.tokens
            /\ raised' = r.exc
            /\ result' = r.val
    /\ op' = "get_dates_dict"
    /\ pc' = "done"
    /\ UNCHANGED <<inner_path, domain, varname, freq, storeVars, other>>

\* InnerPath(path)
NewInnerPath ==
    /\ pc = "ready"
    /\ \E path \in Paths, t \in Todays :
         \E r \in {InnerPath(path, t)} :
            /\ inner_path' = path
            /\ today' = t
            /\ in_tokens' = r.tokens0
            /\ tokens' = r.tokens
            /\ raised' = r.exc
            /\ result' = r.val
    /\ op' = "InnerPath"
    /\ pc' = "done"
    /\ UNCHANGED <<domain, varname, freq, storeVars, other>>

NextHelper == CallFin \/ CallRate \/ CallAgg \/ CallGetDatesDict

SpecHelper == Init /\ [][NextHelper]_vars

NextPath == NewInnerPath

SpecPath == Init /\ [][NextPath]_vars

-----------------------------------------------------------------------------
(* Vocabulary of the properties *)

Range(seq) == {seq[i] : i \in 1..Len(seq)}

\* the tokens that are integers, in order of appearance
IntegerTokens(toks) == SelectSeq(toks, IsDigit)

\* the tokens that are members of a category, in order of appearance
CategoryTokens(toks, allowed) == SelectSeq(toks, LAMBDA x : x \in Range(allowed))

\* the list without its element at position i
Without(list, i) == [j \in 1..(Len(list) - 1) |-> IF j < i THEN list[j] ELSE list[j + 1]]

\* the category a single-valued lookup searches
Category(o) ==
    CASE o = "fin" -> ALLOWED_FINALISERS
      [] o = "rate" -> ALLOWED_REAL_RATES
      [] o = "agg" -> ALLOWED_AGGREGATORS

IsLookup == pc = "done" /\ op \in {"fin", "rate", "agg"}

IsDates == pc = "done" /\ op = "get_dates_dict"

\* an integer token that is a year datetime.date accepts
IsYear(s) == IntOf(s) >= 1 /\ IntOf(s) <= 9999

-----------------------------------------------------------------------------
(* C1 *)

\* C1: a single-valued lookup (fin, rate, agg) over a token list with no
\* token of the category returns None and removes nothing; with exactly one
\* such token it returns that token and removes exactly it; with two or more
\* such tokens (counted as tokens, a repeated value counting twice) it raises
\* CustomError400 carrying exactly the matched values.
C1_LookupByTokenCount ==
    IsLookup =>
        LET found == CategoryTokens(in_tokens, Category(op))
        IN /\ Len(found) = 0 =>
                raised = NoExc /\ result = None /\ tokens = in_tokens
           /\ Len(found) = 1 =>
                /\ raised = NoExc
                /\ result = Some(found[1])
                /\ \E i \in 1..Len(in_tokens) :
                      in_tokens[i] = found[1] /\ tokens = Without(in_tokens, i)
           /\ Len(found) >= 2 =>
                /\ raised.type = "CustomError400"
                /\ Range(raised.values) = Range(found)

-----------------------------------------------------------------------------
(* C3 *)

\* C3: get_dates_dict over a token list whose integer tokens are calendar
\* years returns; with exactly one integer token Y the result has start_date
\* Y-01-01 and end_date today and that token is removed; with exactly two, Y1
\* then Y2 in order of appearance (whatever their numeric order, equal or
\* not), start_date is Y1-01-01, end_date is Y2-12-31 and both are removed;
\* with none, start_date is absent, end_date is today and no token is
\* removed. Every returned result has an end_date. With one or two integer
\* tokens the call returns exactly when each of them is a calendar year.
C3_YearRange ==
    IsDates =>
        LET ints == IntegerTokens(in_tokens)
            rest == SelectSeq(in_tokens, LAMBDA x : ~IsDigit(x))
        IN /\ raised = NoExc => result.end_date # None
           /\ Len(ints) = 0 =>
                /\ raised = NoExc
                /\ result.start_date = None
                /\ result.end_date = Some(today)
                /\ tokens = in_tokens
           /\ Len(ints) = 1 =>
                /\ raised = NoExc <=> IsYear(ints[1])
                /\ raised = NoExc =>
                     /\ result.start_date = Some(<<IntOf(ints[1]), 1, 1>>)
                     /\ result.end_date = Some(today)
                     /\ tokens = rest
           /\ Len(ints) = 2 =>
                /\ raised = NoExc <=> (IsYear(ints[1]) /\ IsYear(ints[2]))
                /\ raised = NoExc =>
                     /\ result.start_date = Some(<<IntOf(ints[1]), 1, 1>>)
                     /\ result.end_date = Some(<<IntOf(ints[2]), 12, 31>>)
                     /\ tokens = rest

\* two years in descending order were extracted, with other tokens around
C3_Witness ==
    /\ IsDates
    /\ raised = NoExc
    /\ Len(IntegerTokens(in_tokens)) = 2
    /\ IntOf(IntegerTokens(in_tokens)[1]) > IntOf(IntegerTokens(in_tokens)[2])
    /\ Len(tokens) = 1
    /\ result.start_date = Some(<<2017, 1, 1>>)
    /\ result.end_date = Some(<<2015, 12, 31>>)

-----------------------------------------------------------------------------
(* C9 *)

\* C9 as stated: with more than two integer tokens get_dates_dict extracts
\* the first two (start_date Jan 1 of the first, end_date Dec 31 of the
\* second, both removed) and leaves the other integer tokens in the list.
C9_FirstTwoExtracted ==
    (IsDates /\ Len(IntegerTokens(in_tokens)) > 2) =>
        LET ints == IntegerTokens(in_tokens)
        IN (IsYear(ints[1]) /\ IsYear(ints[2])) =>
              /\ raised = NoExc
              /\ result.start_date = Some(<<IntOf(ints[1]), 1, 1>>)
              /\ result.end_date = Some(<<IntOf(ints[2]), 12, 31>>)
              /\ Len(tokens) = Len(in_tokens) - 2

\* C9 (amended): with more than two integer tokens get_dates_dict extracts
\* none of them: it returns with start_date absent and end_date today, and
\* removes no token, so every integer token stays in the list.
C9_NoneExtracted ==
    (IsDates /\ Len(IntegerTokens(in_tokens)) > 2) =>
        /\ raised = NoExc
        /\ result.start_date = None
        /\ result.end_date = Some(today)
        /\ tokens = in_tokens

\* three integer tokens, the first two of them calendar years
C9_Witness ==
    /\ IsDates
    /\ Len(IntegerTokens(in_tokens)) > 2
    /\ IsYear(IntegerTokens(in_tokens)[1])
    /\ IsYear(IntegerTokens(in_tokens)[2])
    /\ tokens = in_tokens

-----------------------------------------------------------------------------
(* C2 *)

IsInnerPath == pc = "done" /\ op = "InnerPath"

MutuallyExclusive ==
    CustomError400Msg("Cannot combine rate and aggregation.", << >>)

\* the tokens of the path hold a rate token and an aggregator token
HasRateAndAgg ==
    /\ CategoryTokens(in_tokens, ALLOWED_REAL_RATES) # << >>
    /\ CategoryTokens(in_tokens, ALLOWED_AGGREGATORS) # << >>

\* the years get_dates_dict extracts (one or two integer tokens) are
\* calendar years
YearsAccepted ==
    LET ints == IntegerTokens(in_tokens)
    IN Len(ints) \in {1, 2} => \A i \in 1..Len(ints) : IsYear(ints[i])

\* the number of distinct values of a category among the tokens
Distinct(allowed) == Cardinality(Range(CategoryTokens(in_tokens, allowed)))

\* C2 as stated: an inner path whose tokens hold a rate token and an
\* aggregator token always fails with "Cannot combine rate and aggregation"
\* (stated here for the paths without integer tokens, where no date is built).
C2_AlwaysMutuallyExclusive ==
    (IsInnerPath /\ HasRateAndAgg /\ IntegerTokens(in_tokens) = << >>) =>
        raised = MutuallyExclusive

\* C2 (amended): an inner path whose tokens hold a rate token and an
\* aggregator token always fails, and no InnerPath has both rate and agg set.
\* The failure is "Cannot combine rate and aggregation" exactly when the
\* earlier steps pass: the extracted years are calendar years, the tokens
\* hold at most one distinct finaliser value, one distinct rate value and one
\* distinct aggregator value. Otherwise it is the earlier step's failure.
C2_RateAndAggFail ==
    IsInnerPath =>
        /\ raised = NoExc => ~(result.rate # None /\ result.agg # None)
        /\ HasRateAndAgg =>
             /\ raised # NoExc
             /\ raised = MutuallyExclusive <=>
                   /\ YearsAccepted
                   /\ Distinct(ALLOWED_FINALISERS) <= 1
                   /\ Distinct(ALLOWED_REAL_RATES) = 1
                   /\ Distinct(ALLOWED_AGGREGATORS) = 1

\* the aggregator comes before the rate, with a year and a unit around them
C2_Witness ==
    /\ IsInnerPath
    /\ raised = MutuallyExclusive
    /\ Len(in_tokens) = 3
    /\ in_tokens[1] = S("eop")
    /\ in_tokens[3] = S("rog")

-----------------------------------------------------------------------------
(* C4 *)

\* sub is list with some elements left out, the others in their order
RECURSIVE IsSubsequence(_, _)
IsSubsequence(sub, list) ==
    IF sub = << >> THEN TRUE
    ELSE IF list = << >> THEN FALSE
    ELSE IF Head(sub) = Head(list) THEN IsSubsequence(Tail(sub), Tail(list))
    ELSE IsSubsequence(sub, Tail(list))

\* how many tokens the extraction steps of a constructed InnerPath matched
Extracted ==
    LET n == Len(IntegerTokens(in_tokens))
    IN (IF n \in {1, 2} THEN n ELSE 0) + Len(result.fin) + Len(result.rate)
       + Len(result.agg)

\* C4: in a constructed InnerPath the tokens left after year, finaliser,
\* rate and aggregator extraction are the path's tokens in their original
\* order less the matched ones; if any is left the unit is the first of
\* them; if none is left the unit is the rate when a rate was found and
\* absent otherwise (never the aggregator or the finaliser).
\* 'eop/2015/2017/csv' has no unit, 'rog' has unit 'rog', 'bln_rub' has
\* unit 'bln_rub'.
C4_Unit ==
    (IsInnerPath /\ raised = NoExc) =>
        /\ IsSubsequence(tokens, in_tokens)
        /\ Len(tokens) = Len(in_tokens) - Extracted
        /\ tokens # << >> => result.unit = Some(tokens[1])
        /\ (tokens = << >> /\ result.rate # None) => result.unit = result.rate
        /\ (tokens = << >> /\ result.rate = None) => result.unit = None
        /\ inner_path = <<"eop", "/", "2015", "/", "2017", "/", "csv">> =>
              result.unit = None /\ result.agg = Some(S("eop"))
        /\ inner_path = S("rog") => result.unit = Some(S("rog"))
        /\ inner_path = S("bln_rub") => result.unit = Some(S("bln_rub"))

\* two different tokens are left after a finaliser was extracted
C4_Witness ==
    /\ IsInnerPath
    /\ raised = NoExc
    /\ result.fin # None
    /\ Len(tokens) = 2
    /\ tokens[1] # tokens[2]
    /\ result.unit = Some(tokens[1])

-----------------------------------------------------------------------------
(* C5 *)

\* C5: the tokens of an inner path are its '/'-separated segments, each
\* trimmed of surrounding whitespace, the empty ones discarded, in order; so
\* no token is the empty string and none starts or ends with whitespace.
C5_TokensNonEmptyTrimmed ==
    IsInnerPath =>
        \A i \in 1..Len(in_tokens) :
            /\ in_tokens[i] # << >>
            /\ in_tokens[i][1] \notin Whitespace
            /\ in_tokens[i][Len(in_tokens[i])] \notin Whitespace

-----------------------------------------------------------------------------
(* C10 *)

\* C10: every failure of InnerPath is a validation error (CustomError400),
\* also when an extracted year is not a calendar year.
C10_FailuresAreValidationErrors ==
    (IsInnerPath /\ raised # NoExc) => raised.type = "CustomError400"

-----------------------------------------------------------------------------
(* CustomGET(domain, varname, freq, inner_path) *)

\* most '/'-separated segments in the inner path of a CustomGET
MaxSegsGET == 2

Domains == {S("ru"), S("oil")}

Varnames == {S("BRENT"), S("EXPORT_GOODS")}

\* 'd', 'w', 'm', 'q', 'a' and some strs that are no frequency
Freqs == Range(ALLOWED_FREQUENCIES) \cup {S("x"), << >>, <<"m", " ">>}

PathsGET ==
    {Join(segs) : segs \in UNION {[1..n -> Segments] : n \in 0..MaxSegsGET}}
    \cup ExamplePaths

NewCustomGET ==
    /\ pc = "ready"
    /\ \E dom \in Domains, name \in Varnames, f \in Freqs, path \in PathsGET,
          t \in Todays :
         \E r \in {CustomGET(dom, name, f, path, t)} :
            /\ domain' = dom
            /\ varname' = name
            /\ freq' = f
            /\ inner_path' = path
            /\ today' = t
            /\ in_tokens' = Tokenize(path)
            /\ tokens' = r.tokens
            /\ raised' = r.exc
            /\ result' = r.val
    /\ op' = "CustomGET"
    /\ pc' = "done"
    /\ UNCHANGED <<storeVars, other>>

NextGET == NewCustomGET

SpecGET == Init /\ [][NextGET]_vars

-----------------------------------------------------------------------------
(* C6 *)

IsCustomGET == pc = "done" /\ op = "CustomGET"

InvalidFrequency(f) == CustomError400Msg("Frequency <{freq}> is not valid", <<f>>)

FreqAllowed == freq \in {S("d"), S("w"), S("m"), S("q"), S("a")}

\* InnerPath(inner_path) can be constructed
InnerPathValid == InnerPath(inner_path, today).exc = NoExc

\* C6 as stated: with a freq that is not d, w, m, q or a, CustomGET fails
\* with the invalid-frequency error, whatever the inner path (stated here for
\* the paths without integer tokens, where no date is built).
C6_AlwaysInvalidFrequency ==
    (IsCustomGET /\ ~FreqAllowed /\ IntegerTokens(in_tokens) = << >>) =>
        raised = InvalidFrequency(freq)

\* C6 (amended): with a freq that is not d, w, m, q or a, CustomGET fails and
\* produces no params: with the invalid-frequency error when the inner path
\* is valid, and with the inner path's own failure otherwise (the inner path
\* is parsed before the frequency is looked at). With a freq in the set and a
\* valid inner path it succeeds and params['freq'] is the freq given.
C6_InvalidFrequency ==
    IsCustomGET =>
        /\ ~FreqAllowed => (raised # NoExc /\ result = None)
        /\ (~FreqAllowed /\ InnerPathValid) => raised = InvalidFrequency(freq)
        /\ (~FreqAllowed /\ ~InnerPathValid) =>
              raised = InnerPath(inner_path, today).exc
        /\ (FreqAllowed /\ InnerPathValid) => (raised = NoExc /\ result.freq = freq)

\* a freq outside the set with a valid inner path that has a unit
C6_Witness ==
    /\ IsCustomGET
    /\ ~FreqAllowed
    /\ freq # << >>
    /\ inner_path = S("bln_rub")
    /\ raised = InvalidFrequency(freq)

-----------------------------------------------------------------------------
(* The datapoint store: db.api.queries (select_datapoints, upsert) over the *)
(* table of Datapoint rows, which has a uniqueness constraint on            *)
(* (freq, name, date). A value is written in hundredths: 123.4 is 12340.    *)

\* most upsert calls made in one behaviour
MaxUpserts == 3

\* the concurrent request handlers
Procs == {"h1", "h2"}

\* the datapoints of the tests: CPI_rog, q, 2016-04-21, 123.4 and 123.4 + 4.56
Datapoints ==
    {[freq |-> S("q"), name |-> S("CPI_rog"), date |-> <<2016, 4, 21>>, value |-> 12340],
     [freq |-> S("q"), name |-> S("CPI_rog"), date |-> <<2016, 4, 21>>, value |-> 12796],
     [freq |-> S("q"), name |-> S("CPI_rog"), date |-> <<2016, 6, 30>>, value |-> 12340]}

\* the queries of the tests: one key's date as both bounds, no bounds, and
\* parameters no row has
Queries ==
    {[freq |-> d.freq, name |-> d.name, start_date |-> Some(d.date),
      end_date |-> Some(d.date)] : d \in Datapoints}
    \cup {[freq |-> S("q"), name |-> S("CPI_rog"), start_date |-> None,
           end_date |-> None],
          [freq |-> S("biba"), name |-> S("boba"), start_date |-> Some(<<2005, 1, 1>>),
           end_date |-> Some(<<2006, 1, 1>>)]}

\* a <= b for dates
DateLE(a, b) ==
    \/ a[1] < b[1]
    \/ a[1] = b[1] /\ a[2] < b[2]
    \/ a[1] = b[1] /\ a[2] = b[2] /\ a[3] <= b[3]

\* the key of the uniqueness constraint
Key(d) == <<d.freq, d.name, d.date>>

IntegrityError ==
    [type |-> "IntegrityError", msg |-> "UNIQUE constraint failed", values |-> << >>]

\* the existence check never finding a row (a variant that C7 and C8 tell
\* apart from the store)
MatchingNone(rows, d) == {}

\* the rows with the datapoint's key
Matching(rows, d) == {r \in rows : Key(r) = Key(d)}

\* INSERT of a row, under the uniqueness constraint
Insert(rows, d) ==
    IF \E r \in rows : Key(r) = Key(d)
    THEN [store |-> rows, exc |-> IntegrityError, val |-> None]
    ELSE With([id |-> Cardinality(rows) + 1, freq |-> d.freq, name |-> d.name,
               date |-> d.date, value |-> d.value], LAMBDA row :
         [store |-> rows \cup {row}, exc |-> NoExc, val |-> Some(row)])

\* UPDATE of the value of the rows found
Update(rows, found, d) ==
    With({[r EXCEPT !.value = d.value] : r \in found}, LAMBDA new :
    [store |-> (rows \ found) \cup new, exc |-> NoExc,
     val |-> Some(CHOOSE r \in new : TRUE)])

\* upsert(datapoint): one conditional write
Upsert(rows, d) ==
    With(Matching(rows, d), LAMBDA found :
    IF found # {} THEN Update(rows, found, d) ELSE Insert(rows, d))

\* select_datapoints(freq, name, start_date, end_date)
SelectDatapoints(rows, f, n, start_date, end_date) ==
    {r \in rows :
        /\ r.freq = f
        /\ r.name = n
        /\ start_date # None => DateLE(start_date[1], r.date)
        /\ end_date # None => DateLE(r.date, end_date[1])}

\* the calls of upsert that have begun and not returned
Pending == {i \in 1..Len(log) : ~log[i].returned}

\* a handler calls upsert(d): the call begins
BeginUpsert(p) ==
    /\ Len(log) < MaxUpserts
    /\ \A i \in Pending : log[i].proc # p
    /\ \E d \in Datapoints :
         log' = Append(log, [proc |-> p, dp |-> d, returned |-> FALSE,
                             order |-> 0, overlapped |-> FALSE, exc |-> NoExc])
    /\ UNCHANGED <<pc, op, parseVars, raised, result, store, query, other>>

\* the conditional write of a handler's call takes effect and the call returns
CommitUpsert(p) ==
    /\ \E i \in Pending :
         /\ log[i].proc = p
         /\ \E r \in {Upsert(store, log[i].dp)} :
              /\ store' = r.store
              /\ raised' = r.exc
              /\ result' = r.val
              /\ log' = [log EXCEPT
                           ![i].returned = TRUE,
                           ![i].order = Cardinality({j \in 1..Len(log) : log[j].returned}) + 1,
                           ![i].overlapped = \E j \in Pending \ {i} :
                                                 Key(log[j].dp) = Key(log[i].dp),
                           ![i].exc = r.exc]
    /\ op' = "upsert"
    /\ UNCHANGED <<pc, parseVars, query, other>>

\* select_datapoints(**q)
CallSelectDatapoints ==
    /\ \E q \in Queries :
         /\ query' = Some(q)
         /\ result' = SelectDatapoints(store, q.freq, q.name, q.start_date, q.end_date)
    /\ op' = "select_datapoints"
    /\ raised' = NoExc
    /\ UNCHANGED <<pc, parseVars, store, log, other>>

NextStore ==
    \/ \E p \in Procs : BeginUpsert(p)
    \/ \E p \in Procs : CommitUpsert(p)
    \/ CallSelectDatapoints

SpecStore == Init /\ [][NextStore]_vars

-----------------------------------------------------------------------------
(* C7 *)

\* the calls of upsert on the key of d that have returned
Returned(d) == {i \in 1..Len(log) : log[i].returned /\ Key(log[i].dp) = Key(d)}

\* the one of them that was serialized last
LastReturned(d) == CHOOSE i \in Returned(d) : \A j \in Returned(d) : log[j].order <= log[i].order

\* select_datapoints with a key's date as both bounds
PointQuery(d) ==
    [freq |-> d.freq, name |-> d.name, start_date |-> Some(d.date),
     end_date |-> Some(d.date)]

\* what C7 says select returns for the key of d
OneRecordWithLastValue(rows, d) ==
    IF Returned(d) = {} THEN rows = {}
    ELSE /\ Cardinality(rows) = 1
         /\ \A r \in rows : Key(r) = Key(d) /\ r.value = log[LastReturned(d)].dp.value

\* C7: after any upserts, the store holds at most one row for every key
\* (freq, name, date), and select_datapoints(name, freq, start_date = date,
\* end_date = date) gives exactly one row, whose value is that of the most
\* recent upsert of the key, or no row if the key was never upserted: an
\* upsert of d after an upsert of d leaves one row with d's value, and an
\* upsert of the key with a new value replaces the value. Parameters that no
\* row has select nothing.
C7_SelectGivesLastUpsert ==
    /\ \A d \in Datapoints :
          /\ Cardinality({r \in store : Key(r) = Key(d)}) <= 1
          /\ OneRecordWithLastValue(
                SelectDatapoints(store, d.freq, d.name, Some(d.date), Some(d.date)), d)
    /\ op = "select_datapoints" =>
          /\ \A d \in Datapoints :
                query = Some(PointQuery(d)) => OneRecordWithLastValue(result, d)
          /\ query[1].name = S("boba") => result = {}

\* a key was upserted, then upserted with a new value, then upserted with
\* that value again, and then selected
C7_Witness ==
    /\ op = "select_datapoints"
    /\ Len(log) = 3
    /\ \A i \in 1..3 : log[i].returned /\ ~log[i].overlapped /\ log[i].order = i
    /\ Key(log[1].dp) = Key(log[2].dp)
    /\ log[1].dp.value # log[2].dp.value
    /\ log[3].dp = log[2].dp
    /\ query = Some(PointQuery(log[3].dp))
    /\ Cardinality(result) = 1
    /\ \A r \in result : r.value = log[3].dp.value

-----------------------------------------------------------------------------
(* C8 *)

-----------------------------------------------------------------------------
(* Two inner paths made of the same segments in two orders *)

\* most segments in the two paths
MaxPermSegs == 3

\* the segments that are put in two orders: 'csv', 'rog', 'eop', '2015',
\* '2017', '0', ' bln_rub ' and ' '
PermSegments ==
    {S("csv"), S("rog"), S("eop"), S("2015"), S("2017"), S("0"),
     <<" ", "bln_rub", " ">>, S(" ")}

\* '2015/2017/2015/bln_rub': three years and a unit
ExampleSegLists == {<<S("2015"), S("2017"), S("2015"), S("bln_rub")>>}

SegLists ==
    UNION {[1..n -> PermSegments] : n \in 0..MaxPermSegs} \cup ExampleSegLists

\* InnerPath(path), what is kept of it
Built(path, r) ==
    [inner_path |-> path, in_tokens |-> r.tokens0, tokens |-> r.tokens,
     raised |-> r.exc, result |-> r.val]

\* InnerPath('/'.join(segs)) and InnerPath of the same segments reordered
NewInnerPathPair ==
    /\ pc = "ready"
    /\ \E segs \in SegLists, t \in Todays :
         \E perm \in Permutations(1..Len(segs)) :
            \E path1 \in {Join(segs)},
               path2 \in {Join([i \in 1..Len(segs) |-> segs[perm[i]]])} :
               \E r1 \in {InnerPath(path1, t)}, r2 \in {InnerPath(path2, t)} :
                  /\ inner_path' = path1
                  /\ today' = t
                  /\ in_tokens' = r1.tokens0
                  /\ tokens' = r1.tokens
                  /\ raised' = r1.exc
                  /\ result' = r1.val
                  /\ other' = Some(Built(path2, r2))
    /\ op' = "InnerPath, InnerPath"
    /\ pc' = "done"
    /\ UNCHANGED <<domain, varname, freq, storeVars>>

NextPair == NewInnerPathPair

SpecPair == Init /\ [][NextPair]_vars

-----------------------------------------------------------------------------
(* C11 *)

IsPair == pc = "done" /\ op = "InnerPath, InnerPath"

\* the values of the three single-valued categories
CategoryValues == ALLOWED_FINALISERS \o ALLOWED_REAL_RATES \o ALLOWED_AGGREGATORS

\* a token that is no integer and belongs to no category
NoCategory(x) == ~IsDigit(x) /\ x \notin Range(CategoryValues)

\* how often x occurs in the list
Count(x, list) == Cardinality({i \in 1..Len(list) : list[i] = x})

\* the two lists hold the same tokens, each as often
IsPermutation(a, b) ==
    /\ Len(a) = Len(b)
    /\ \A x \in Range(a) \cup Range(b) : Count(x, a) = Count(x, b)

\* the list less the first occurrence of each of the values that occur in it
RECURSIVE LessFirstOfEach(_, _)
LessFirstOfEach(list, values) ==
    IF values = << >> THEN list
    ELSE IF Count(Head(values), list) = 0 THEN LessFirstOfEach(list, Tail(values))
    ELSE LessFirstOfEach(
            Without(list, CHOOSE i \in 1..Len(list) :
                             /\ list[i] = Head(values)
                             /\ \A j \in 1..(i - 1) : list[j] # Head(values)),
            Tail(values))

\* the tokens no extraction step takes: with one or two integer tokens the
\* integers go, with any other number of them they all stay; of every
\* finaliser, rate and aggregator value one occurrence goes
Unextracted(list) ==
    LessFirstOfEach(
        IF Len(IntegerTokens(list)) \in {1, 2}
        THEN SelectSeq(list, LAMBDA x : ~IsDigit(x)) ELSE list,
        CategoryValues)

\* the two constructions ended the same way: the same InnerPath or the same
\* exception
SameOutcome ==
    /\ raised = other[1].raised
    /\ raised = NoExc => result = other[1].result

\* C11 as stated: two token sequences that are permutations of each other,
\* with the integer tokens in the same relative order and the tokens of no
\* category in the same relative order, give the same outcome (stated here
\* for sequences in which no finaliser, rate or aggregator value is repeated).
C11_OrderIndependent ==
    (/\ IsPair
     /\ IsPermutation(in_tokens, other[1].in_tokens)
     /\ IntegerTokens(in_tokens) = IntegerTokens(other[1].in_tokens)
     /\ SelectSeq(in_tokens, NoCategory) = SelectSeq(other[1].in_tokens, NoCategory)
     /\ \A x \in Range(CategoryValues) : Count(x, in_tokens) <= 1)
    => SameOutcome

\* C11 (amended): two token sequences that are permutations of each other,
\* with the integer tokens in the same relative order and the tokens that no
\* extraction step takes in the same relative order, give the same outcome.
\* The tokens no step takes are the tokens of no category, all the integer
\* tokens when there are more than two of them, and every occurrence but one
\* of a repeated finaliser, rate or aggregator value.
C11_OrderIndependentOfExtracted ==
    (/\ IsPair
     /\ IsPermutation(in_tokens, other[1].in_tokens)
     /\ IntegerTokens(in_tokens) = IntegerTokens(other[1].in_tokens)
     /\ Unextracted(in_tokens) = Unextracted(other[1].in_tokens))
    => SameOutcome

\* 'csv', a year and a unit in two different orders, both constructed
C11_Witness ==
    /\ IsPair
    /\ IsPermutation(in_tokens, other[1].in_tokens)
    /\ IntegerTokens(in_tokens) = IntegerTokens(other[1].in_tokens)
    /\ Unextracted(in_tokens) = Unextracted(other[1].in_tokens)
    /\ Len(in_tokens) = 3
    /\ in_tokens[1] = S("csv")
    /\ other[1].in_tokens[1] = S("bln_rub")
    /\ raised = NoExc
    /\ result.fin = Some(S("csv"))
    /\ result.dates.start_date # None
    /\ result.unit = Some(S("bln_rub"))
    /\ other[1].result = result

====
